---- MODULE Spec2Model ----
(***************************************************************************)
(* BrainDump agent: the plan document state.md, the reconcile cycle        *)
(* (app.py run_replan, run_agent.py main) and the web handlers that        *)
(* read, rewrite and persist it.                                           *)
(*                                                                         *)
(* A text is the sequence of its non-blank lines.  Every function of the   *)
(* program that looks at a text looks at it line by line after strip(),    *)
(* and a blank line matches none of its patterns, so blank lines carry no  *)
(* information.  A line is a record: its kind k says which of the          *)
(* program's patterns the line matches, the other fields hold what the     *)
(* patterns capture.                                                       *)
(*   k = "done"  - [x] text          u: the marker is written [X]          *)
(*                                   d: the text starts YYYY-MM-DD SEP     *)
(*                                      (0: it does not), d is that day    *)
(*                                   pd: a second date inside the text     *)
(*                                   t: the rest of the text               *)
(*   k = "meta"  <!-- meta: {...} -->  ok: the payload is valid JSON,      *)
(*                                   m: the mapping it holds               *)
(*   k = "hdr"   a line holding "## Done Archive"                          *)
(*   k = "jc"    a line holding "## Just Completed"                        *)
(*   k = "today" / "skip" / "parking" / "extrahd"  section headings        *)
(*   k = "task"  1. **t**      k = "hint"  -> t                            *)
(*   k = "park"  - t SEP reason   k = "extra"  - t                         *)
(*   k = "rule"  ---           k = "text"  anything else                   *)
(***************************************************************************)
EXTENDS Integers, Sequences, FiniteSets, TLC

\* ------------------------------------------------------------------ lines

EmptyMeta == [style |-> "", mdate |-> 0, mcount |-> 0]

Line(k, t) == [k |-> k, t |-> t, d |-> 0, pd |-> 0, u |-> FALSE, ok |-> FALSE, m |-> EmptyMeta]

DoneLine(u, d, t) == [Line("done", t) EXCEPT !.u = u, !.d = d]

MetaLine(meta) == [Line("meta", "") EXCEPT !.ok = TRUE, !.m = meta]

BadMetaLine == Line("meta", "")

\* DONE_ARCHIVE_HEADER, as a line of a text
DONE_ARCHIVE_HEADER == Line("hdr", "")

JUST_COMPLETED == Line("jc", "")

\* DONE_LINE_RE: ^\s*-\s*\[x\]\s*(.+?)\s*$ with re.IGNORECASE
DONE_LINE_RE(l) == l.k = "done"

\* DATED_DONE_RE: the same with (\d{4}-\d{2}-\d{2})\s*SEP\s*(.+?) and no
\* re.IGNORECASE: a line written "- [X] ..." does not match it.
DATED_DONE_RE(l) == l.k = "done" /\ ~l.u /\ l.d # 0

\* META_RE
META_RE(l) == l.k = "meta"

\* line.strip().lower().startswith("- [x]")
StartsWithDoneMarker(l) == l.k \in {"done", "bare"}

\* The texts (task names, notes, reasons) whose words the heading keywords
\* match: "today" is a substring of each text of TodayTexts, and so on.
TodayTexts == {"sorry today", "plan today", "relax today"}

ParkingTexts == {"parking spot"}

ExtraTexts == {"extra mile"}

\* "today" in line_lower or "do these" in line_lower
HasToday(l) ==
    l.k \in {"today", "skip"} \/ (l.k \notin {"hdr", "jc", "rule", "meta", "bare"} /\ l.t \in TodayTexts)

\* "parking" in line_lower or "can skip" in line_lower or "not today" in line_lower
HasParking(l) ==
    l.k \in {"parking", "skip"} \/ (l.k \notin {"hdr", "jc", "rule", "meta", "bare"} /\ l.t \in ParkingTexts)

\* "extra" in line_lower or "if you have energy" in line_lower
HasExtra(l) ==
    l.k = "extrahd" \/ (l.k \notin {"hdr", "jc", "rule", "meta", "bare"} /\ l.t \in ExtraTexts)

\* line_stripped.startswith("## ") or line_stripped.startswith("---")
IsHeadingOrRule(l) == l.k \in {"today", "skip", "parking", "extrahd", "hdr", "jc", "rule"}

\* SEP in line: the dash of a parking line and of a dated completion
HasSep(l) == l.k = "park" \/ (l.k = "done" /\ (l.d # 0 \/ l.pd # 0))

\* "**" in line
HasBold(l) == l.k = "task"

\* x in y, for the texts of the model
IsSub(x, y) == x = y \/ <<x, y>> \in {<<"a", "ab">>}

\* needle in line: the needle within the text the line holds
InLine(needle, l) ==
    l.k \in {"text", "task", "hint", "park", "extra", "done"} /\ IsSub(needle, l.t)

\* ------------------------------------------------------- sequence helpers

RECURSIVE SelectLines(_, _)
SelectLines(s, keep) ==
    IF s = << >> THEN << >>
    ELSE (IF Head(s) \in keep THEN <<Head(s)>> ELSE << >>) \o SelectLines(Tail(s), keep)

Range(s) == {s[i] : i \in 1..Len(s)}

\* the index of the first element of s that is in S, 0 when there is none
FirstIn(s, S) ==
    IF \E i \in 1..Len(s) : s[i] \in S
    THEN CHOOSE i \in 1..Len(s) : s[i] \in S /\ \A j \in 1..(i - 1) : s[j] \notin S
    ELSE 0

\* ------------------------------------------------------------- metadata

get_metadata(text) ==
    LET good == {l \in Range(text) : META_RE(l) /\ l.ok}
        i == FirstIn(text, good)
    IN  IF i = 0 THEN EmptyMeta ELSE text[i].m

strip_metadata(text) == SelectLines(text, {l \in Range(text) : ~META_RE(l)})

set_metadata(text, meta) == strip_metadata(text) \o <<MetaLine(meta)>>

\* -------------------------------------------------------------- parsing

split_done_archive(text) ==
    LET t == strip_metadata(text)
        i == FirstIn(t, {DONE_ARCHIVE_HEADER})
        tail == SubSeq(t, i + 1, Len(t))
    IN  IF i = 0 THEN [main |-> t, archive |-> << >>]
        ELSE [main |-> SubSeq(t, 1, i - 1),
              archive |-> SelectLines(tail, {l \in Range(tail) : StartsWithDoneMarker(l)})]

extract_done_lines(text) == SelectLines(text, {l \in Range(text) : DONE_LINE_RE(l)})

remove_done_lines(text) == SelectLines(text, {l \in Range(text) : ~DONE_LINE_RE(l)})

normalize_done_item(raw_line, done_date) ==
    IF DATED_DONE_RE(raw_line) THEN raw_line
    ELSE IF ~DONE_LINE_RE(raw_line) THEN raw_line
    ELSE [raw_line EXCEPT !.u = FALSE, !.d = done_date, !.pd = raw_line.d]

NormalizeAll(lines, done_date) ==
    [i \in 1..Len(lines) |-> normalize_done_item(lines[i], done_date)]

RECURSIVE DedupeFrom(_, _)
DedupeFrom(items, seen) ==
    IF items = << >> THEN << >>
    ELSE IF Head(items) \in seen THEN DedupeFrom(Tail(items), seen)
    ELSE <<Head(items)>> \o DedupeFrom(Tail(items), seen \cup {Head(items)})

\* dedupe_preserve_order keeping the last occurrence of a line, not the first
RECURSIVE DedupeKeepLast(_)
DedupeKeepLast(list) ==
    IF list = << >> THEN << >>
    ELSE IF \E i \in 2..Len(list) : list[i] = Head(list) THEN DedupeKeepLast(Tail(list))
    ELSE <<Head(list)>> \o DedupeKeepLast(Tail(list))

\* dedupe_preserve_order returning the list as it got it
DedupeNone(list) == list

dedupe_preserve_order(list) == DedupeFrom(list, {})

\* -------------------------------------------------------- parsed view

\* One line of parse_state_sections' loop over main_content; st is the
\* loop's state: the section cursor and the three lists.
ParseLine(st, l) ==
    IF HasToday(l) THEN [st EXCEPT !.sec = "today"]
    ELSE IF HasParking(l) THEN [st EXCEPT !.sec = "parking"]
    ELSE IF HasExtra(l) THEN [st EXCEPT !.sec = "extra"]
    ELSE IF IsHeadingOrRule(l) THEN st
    ELSE IF l.k = "task" THEN
        (IF st.sec = "today"
         THEN [st EXCEPT !.today = Append(@, [name |-> l.t, hint |-> ""])]
         ELSE st)
    ELSE IF l.k = "hint" /\ st.today # << >> /\ st.sec = "today" THEN
        [st EXCEPT !.today[Len(st.today)].hint = l.t]
    ELSE IF HasSep(l) /\ st.sec = "parking" THEN
        [st EXCEPT !.parking = Append(@, [name |-> IF l.k = "park" THEN l.t ELSE "[x]", reason |-> IF l.k = "park" THEN "reason" ELSE l.t])]
    ELSE IF l.k \in {"extra", "park", "done", "bare"} /\ st.sec = "extra" THEN
        [st EXCEPT !.extra = Append(@, l)]
    ELSE st

RECURSIVE ParseLines(_, _)
ParseLines(st, lines) ==
    IF lines = << >> THEN st ELSE ParseLines(ParseLine(st, Head(lines)), Tail(lines))

\* done_items: a dated line gives its date and text, another done line the
\* empty date; a line that matches neither pattern is skipped.
DoneItem(l) ==
    IF DATED_DONE_RE(l) THEN [date |-> l.d, pd |-> l.pd, text |-> l.t]
    ELSE [date |-> 0, pd |-> l.d, text |-> l.t]

parse_state_sections(text) ==
    LET sp == split_done_archive(strip_metadata(text))
        st == ParseLines([sec |-> "none", today |-> << >>, parking |-> << >>, extra |-> << >>],
                         sp.main)
        dl == SelectLines(sp.archive, {l \in Range(sp.archive) : DONE_LINE_RE(l)})
    IN  [today |-> st.today, parking |-> st.parking, extra |-> st.extra,
         done |-> [i \in 1..Len(dl) |-> DoneItem(dl[i])]]

EmptyView == [today |-> << >>, parking |-> << >>, extra |-> << >>, done |-> << >>]

\* ----------------------------------------------------- weekly summary

\* date.isocalendar()[:2]: days are numbered from a Monday, seven to a week
DaysPerWeek == 7

IsoWeek(d) == (d - 1) \div DaysPerWeek

RECURSIVE SortedDays(_)
SortedDays(S) ==
    IF S = {} THEN << >>
    ELSE LET m == CHOOSE x \in S : \A y \in S : x <= y
         IN  <<m>> \o SortedDays(S \ {m})

\* sorted(by_day.keys()) in descending order
RECURSIVE SortedDaysDescending(_)
SortedDaysDescending(S) ==
    IF S = {} THEN << >>
    ELSE LET m == CHOOSE x \in S : \A y \in S : x >= y
         IN  <<m>> \o SortedDaysDescending(S \ {m})

\* the summary with its days from the latest to the earliest
SummaryTextDescending(this_week) ==
    LET days == SortedDaysDescending({e.d : e \in Range(this_week)})
    IN  [total |-> Len(this_week),
         groups |-> [i \in 1..Len(days) |->
                       [day |-> days[i],
                        items |-> SelectLines(this_week, {e \in Range(this_week) : e.d = days[i]})]]]

\* The text update_weekly_summary writes for the entries this_week: the
\* total, then one group per day in ascending order, each with its items
\* in the order of the archive.
SummaryText(this_week) ==
    LET days == SortedDays({e.d : e \in Range(this_week)})
    IN  [total |-> Len(this_week),
         groups |-> [i \in 1..Len(days) |->
                       [day |-> days[i],
                        items |-> SelectLines(this_week, {e \in Range(this_week) : e.d = days[i]})]]]

\* this_week without the filter on the week: every dated entry
ThisWeekAllDated(archive_lines, day) ==
    SelectLines(archive_lines, {l \in Range(archive_lines) : DATED_DONE_RE(l)})

\* The entries update_weekly_summary keeps: dated, and of today's ISO week.
ThisWeek(archive_lines, day) ==
    SelectLines(archive_lines,
                {l \in Range(archive_lines) : DATED_DONE_RE(l) /\ IsoWeek(l.d) = IsoWeek(day)})

\* The date of an entry whose ten characters have the shape \d{4}-\d{2}-\d{2}
\* and name no day of the calendar ("2024-13-45"): DATED_DONE_RE matches the
\* entry, date.fromisoformat raises ValueError on it.
BadDate == -1

\* update_weekly_summary's loop reaches date.fromisoformat(m.group(1)) for
\* every entry DATED_DONE_RE matches, before it has written anything.
SummaryRaises(archive_lines) ==
    \E l \in Range(archive_lines) : DATED_DONE_RE(l) /\ l.d = BadDate

\* summaries after update_weekly_summary(archive_lines): a file is a pair
\* <<name, text>>, and writing a name replaces the file of that name. When
\* the call raises, no file has been written.
update_weekly_summary(files, archive_lines, day) ==
    IF SummaryRaises(archive_lines) THEN files
    ELSE LET tw == ThisWeek(archive_lines, day)
         IN  IF tw = << >> THEN files
             ELSE {f \in files : f[1] # IsoWeek(day)} \cup {<<IsoWeek(day), SummaryText(tw)>>}

WritesSummary(archive_lines, day) ==
    ~SummaryRaises(archive_lines) /\ ThisWeek(archive_lines, day) # << >>

\* ---------------------------------------------------- reconcile cycle

\* The text run_replan writes when the generator's text is unusable; its
\* arrow line reads "You've done a lot today, time to relax".
FALLBACK ==
    << Line("today", ""), Line("task", "Take a break"), Line("hint", "relax today"),
       Line("rule", ""), Line("skip", ""), Line("park", "Other tasks"),
       Line("rule", ""), Line("extrahd", ""), Line("extra", "Think about tomorrow") >>

\* text.split(marker, 1)[0] when the marker is in the text
BeforeFirst(text, marker) ==
    LET i == FirstIn(text, {marker})
    IN  IF i = 0 THEN text ELSE SubSeq(text, 1, i - 1)

\* clean_tasks without its last step, remove_done_lines
SanitizeKeepsDoneLines(text) ==
    BeforeFirst(BeforeFirst(text, DONE_ARCHIVE_HEADER), JUST_COMPLETED)

\* clean_tasks of run_replan, before the fallback
Sanitize(text) ==
    remove_done_lines(BeforeFirst(BeforeFirst(text, DONE_ARCHIVE_HEADER), JUST_COMPLETED))

\* has_today_tasks
has_today_tasks(clean_tasks) == \E i \in 1..Len(clean_tasks) : HasToday(clean_tasks[i])

UseFallback(clean_tasks) == clean_tasks = << >> \/ ~has_today_tasks(clean_tasks)

\* combined_archive with the generator's completions put first
CombinedArchiveGenFirst(raw, resp, day) ==
    LET sp == split_done_archive(raw)
    IN  dedupe_preserve_order(NormalizeAll(extract_done_lines(resp), day)
                              \o sp.archive
                              \o NormalizeAll(extract_done_lines(sp.main), day))

\* combined_archive with model_done taken from the sanitized text
CombinedArchiveFromClean(raw, resp, day) ==
    LET sp == split_done_archive(raw)
        cut == BeforeFirst(BeforeFirst(resp, DONE_ARCHIVE_HEADER), JUST_COMPLETED)
    IN  dedupe_preserve_order(sp.archive
                              \o NormalizeAll(extract_done_lines(sp.main), day)
                              \o NormalizeAll(extract_done_lines(cut), day))

\* combined_archive of run_replan without dedupe_preserve_order
CombinedArchiveNoDedupe(raw, resp, day) ==
    LET sp == split_done_archive(raw)
    IN  sp.archive
        \o NormalizeAll(extract_done_lines(sp.main), day)
        \o NormalizeAll(extract_done_lines(resp), day)

\* combined_archive of run_replan
CombinedArchive(raw, resp, day) ==
    LET sp == split_done_archive(raw)
    IN  dedupe_preserve_order(sp.archive
                              \o NormalizeAll(extract_done_lines(sp.main), day)
                              \o NormalizeAll(extract_done_lines(resp), day))

\* final_state of run_replan, from the text it read, the generator's text
\* and today's date
ReplanFinalState(raw, resp, day) ==
    LET meta == get_metadata(raw)
        clean == Sanitize(resp)
        body == IF UseFallback(clean) THEN FALLBACK ELSE clean
        combined == CombinedArchive(raw, resp, day)
        final == IF combined # << >> THEN body \o <<DONE_ARCHIVE_HEADER>> \o combined ELSE body
    IN  IF meta # EmptyMeta THEN set_metadata(final, meta) ELSE final

\* what run_replan hands to the generator: brain_dump and completed_today
ReplanPrompt(raw, day) ==
    LET sp == split_done_archive(raw)
    IN  [brain_dump |-> remove_done_lines(sp.main),
         completed |-> sp.archive \o NormalizeAll(extract_done_lines(sp.main), day)]

\* run_agent.py: split_done_archive does not strip the metadata line
cli_split_done_archive(text) ==
    LET i == FirstIn(text, {DONE_ARCHIVE_HEADER})
        tail == SubSeq(text, i + 1, Len(text))
    IN  IF i = 0 THEN [main |-> text, archive |-> << >>]
        ELSE [main |-> SubSeq(text, 1, i - 1),
              archive |-> SelectLines(tail, {l \in Range(tail) : StartsWithDoneMarker(l)})]

CliCombinedArchive(raw, day) ==
    LET sp == cli_split_done_archive(raw)
    IN  dedupe_preserve_order(sp.archive \o NormalizeAll(extract_done_lines(sp.main), day))

\* final_state of run_agent.py main
CliFinalState(raw, resp, day) ==
    LET body == remove_done_lines(BeforeFirst(resp, DONE_ARCHIVE_HEADER))
        combined == CliCombinedArchive(raw, day)
    IN  IF combined # << >> THEN body \o <<DONE_ARCHIVE_HEADER>> \o combined ELSE body

CliPrompt(raw, day) ==
    LET sp == cli_split_done_archive(raw)
    IN  [brain_dump |-> remove_done_lines(sp.main),
         completed |-> NormalizeAll(extract_done_lines(sp.main), day)]

\* ------------------------------------------------- handlers' own edits

\* read_text strips the text and write_text ends it with one newline: on
\* the sequence of non-blank lines both keep every line as it is.
read_text(file) == file

write_text(text) == text

\* text with its metadata set when the mapping is not empty ("if meta:")
WithMeta(text, meta) == IF meta # EmptyMeta THEN set_metadata(text, meta) ELSE text

\* capture: the note goes on top of the document
CaptureContent(raw, text) ==
    WithMeta(<<Line("text", text)>> \o strip_metadata(raw), get_metadata(raw))

\* complete's loop: the first bold line holding task_text becomes a done
\* line, and every arrow line after it is dropped
RECURSIVE CompleteLoop(_, _, _)
CompleteLoop(lines, task_text, found) ==
    IF lines = << >> THEN << >>
    ELSE LET l == Head(lines)
         IN  IF InLine(task_text, l) /\ HasBold(l) /\ ~found
             THEN <<DoneLine(FALSE, 0, task_text)>> \o CompleteLoop(Tail(lines), task_text, TRUE)
             ELSE IF found /\ l.k = "hint" THEN CompleteLoop(Tail(lines), task_text, found)
             ELSE <<l>> \o CompleteLoop(Tail(lines), task_text, found)

NoteLines(note) == IF note # "" THEN <<Line("text", note)>> ELSE << >>

CompleteContent(raw, task_text, note) ==
    WithMeta(NoteLines(note) \o CompleteLoop(strip_metadata(raw), task_text, FALSE),
             get_metadata(raw))

\* complete_parking's loop: the first line holding task_name and SEP
RECURSIVE ParkingLoop(_, _, _)
ParkingLoop(lines, task_name, found) ==
    IF lines = << >> THEN << >>
    ELSE LET l == Head(lines)
         IN  IF InLine(task_name, l) /\ HasSep(l) /\ ~found
             THEN <<DoneLine(FALSE, 0, task_name)>> \o ParkingLoop(Tail(lines), task_name, TRUE)
             ELSE <<l>> \o ParkingLoop(Tail(lines), task_name, found)

ParkingContent(raw, task_name, note) ==
    WithMeta(NoteLines(note) \o ParkingLoop(strip_metadata(raw), task_name, FALSE),
             get_metadata(raw))

ConfirmContent(raw, item) ==
    WithMeta(<<DoneLine(FALSE, 0, item)>> \o strip_metadata(raw), get_metadata(raw))

\* increment_micro_action_count: the mapping it stores
IncrementedMeta(meta, day) ==
    IF meta.mdate # day THEN [meta EXCEPT !.mdate = day, !.mcount = 1]
    ELSE [meta EXCEPT !.mcount = @ + 1]

IncrementContent(raw, day) ==
    set_metadata(strip_metadata(raw), IncrementedMeta(get_metadata(raw), day))

\* get_micro_action_count
get_micro_action_count(raw, day) ==
    LET meta == get_metadata(raw)
    IN  IF meta.mdate # day THEN 0 ELSE meta.mcount

MAX_MICRO_ACTIONS_PER_DAY == 2

\* what complete and confirm_done return beside the view: the types of the
\* micro actions random.choice draws the offer from (none: micro_action is
\* None), whether they ask, and which note they send
NoReply == [micro_action |-> {}, ask |-> FALSE, note |-> "none"]

\* select_micro_action: the candidates; MICRO_ACTIONS holds actions of
\* every type
select_micro_action(remaining_tasks) ==
    {"closing", "reset"} \cup (IF remaining_tasks # << >> THEN {"prep"} ELSE {})

\* the limit tested with > in place of >=
OfferReplyOneMore(current_count, remaining_tasks) ==
    IF current_count > MAX_MICRO_ACTIONS_PER_DAY
    THEN [micro_action |-> {}, ask |-> FALSE, note |-> "shutdown"]
    ELSE [micro_action |-> select_micro_action(remaining_tasks),
          ask |-> select_micro_action(remaining_tasks) # {},
          note |-> "safety"]

\* the end of complete and of confirm_done, from the counter they read
\* and the Today tasks left in the view
OfferReply(current_count, remaining_tasks) ==
    IF current_count >= MAX_MICRO_ACTIONS_PER_DAY
    THEN [micro_action |-> {}, ask |-> FALSE, note |-> "shutdown"]
    ELSE [micro_action |-> select_micro_action(remaining_tasks),
          ask |-> select_micro_action(remaining_tasks) # {},
          note |-> "safety"]

AcceptContent(raw, title) ==
    WithMeta(<<Line("text", title)>> \o strip_metadata(raw), get_metadata(raw))

Styles == {"snarky", "neutral", "warm"}

\* set_style storing the string as it came
CoerceNone(style) == style

\* set_style's coercion
CoerceStyle(style) == IF style \notin Styles THEN "neutral" ELSE style

\* set_praise_style
StyleContent(raw, style) ==
    set_metadata(strip_metadata(raw), [get_metadata(raw) EXCEPT !.style = style])

\* get_praise_style
get_praise_style(raw) ==
    LET meta == get_metadata(raw) IN IF meta.style = "" THEN "neutral" ELSE meta.style

\* combined_archive of complete_all without the archive that was there
AllDoneArchiveNewOnly(raw, all_tasks, day) ==
    dedupe_preserve_order([i \in 1..Len(all_tasks) |-> DoneLine(FALSE, day, all_tasks[i])])

\* complete_all: combined_archive and new_state
AllDoneArchive(raw, all_tasks, day) ==
    dedupe_preserve_order([i \in 1..Len(all_tasks) |-> DoneLine(FALSE, day, all_tasks[i])]
                          \o split_done_archive(raw).archive)

ALL_DONE_BODY ==
    << Line("today", ""), Line("text", "(All done!)"), Line("rule", ""),
       Line("skip", ""), Line("text", "(Also all done!)"), Line("rule", ""),
       Line("extrahd", ""), Line("extra", "Rest well") >>

AllDoneState(raw, all_tasks, day) ==
    WithMeta(ALL_DONE_BODY \o <<DONE_ARCHIVE_HEADER>> \o AllDoneArchive(raw, all_tasks, day),
             get_metadata(raw))

\* detect_all_done(text): (today_all_done, include_parking)
detect_all_done(text) ==
    IF text = "nothing left" THEN <<TRUE, TRUE>>
    ELSE IF text = "all done" THEN <<TRUE, FALSE>>
    ELSE <<FALSE, FALSE>>

\* ------------------------------------------------------------- bounds

\* the longest generator response, in lines
MaxGenLen == 2

\* the lines a user has put on top of the document, at most
MaxUserLines == 1

\* the entries of the archive at the start, at most
MaxArchLen == 2

\* the requests served in one behaviour
MaxRequests == 1

\* the day of the first request; the documents hold entries of day 1
FirstDay == 2

Seqs(S, n) == UNION {[1..k -> S] : k \in 0..n}

\* --------------------------------------------------------- the inputs

\* what a user types on top of state.md
UserLines ==
    { DoneLine(FALSE, 0, "x"), DoneLine(FALSE, 1, "x"), DoneLine(TRUE, 1, "x"),
      Line("text", "note") }

\* a body the generator wrote in an earlier cycle
TypicalBody ==
    << Line("today", ""), Line("task", "a"), Line("hint", "start"),
       Line("skip", ""), Line("park", "b") >>

ArchLines == { DoneLine(FALSE, 1, "x"), DoneLine(FALSE, FirstDay, "g") }

StoredMeta == [style |-> "warm", mdate |-> 1, mcount |-> 1]

Render(body, archive, meta) ==
    WithMeta(IF archive # << >> THEN body \o <<DONE_ARCHIVE_HEADER>> \o archive ELSE body, meta)

InitDocs ==
    { Render(u \o b, a, m) :
        u \in Seqs(UserLines, MaxUserLines), b \in {<< >>, TypicalBody},
        a \in Seqs(ArchLines, MaxArchLen), m \in {EmptyMeta, StoredMeta} }

\* the lines of a generator response: a proposal, a refusal, and what the
\* generator was told not to write
GenLines ==
    { Line("today", ""), Line("task", "a"), Line("text", "sorry"),
      Line("text", "sorry today"), DONE_ARCHIVE_HEADER, JUST_COMPLETED,
      DoneLine(FALSE, 0, "g"),
      MetaLine([style |-> "snarky", mdate |-> 0, mcount |-> 0]) }

GenResponses == Seqs(GenLines, MaxGenLen)

CaptureTexts == {"note", "all done"}

CompleteArgs == {<<"a", "">>, <<"b", "n">>}

ParkingArgs == {<<"b", "">>, <<"x", "">>}

ConfirmItems == {"x"}

MicroTitles == {"walk"}

StyleArgs == {"warm", "bogus"}

\* the lists a confirmation sends back: capture returns pending_confirm = []
\* when the document lists Parking tasks only
CompleteAllArgs == {<< <<"a">>, << >> >>, << <<"a">>, <<"b">> >>, << << >>, << >> >>}

\* ---------------------------------------------------------- the state

VARIABLES
    state_md,    \* STATE_PATH: the canonical document
    runs,        \* RUNS_DIR: the snapshots, <<timestamp, text>>
    summaries,   \* SUMMARIES_DIR: the weekly summaries, <<week, text>>
    today,       \* date.today()
    sec,         \* the second of the day, as timestamp() reads it
    pc,          \* where the request being served is
    req,         \* the request being served, or the last one served
    raw_state,   \* raw_state of the reconcile cycle
    new_tasks,   \* the generator's text
    outcome,     \* how the last request ended
    ret,         \* the parsed view the last request returned
    reply,       \* what complete and confirm_done return beside the view
    pre,         \* the files when the request arrived
    wlog,        \* what the request has done to the files, in order
    nreq,        \* the requests served so far
    items,       \* the list handed to dedupe_preserve_order
    out,         \* what dedupe_preserve_order returned, call after call
    budget,      \* the requests one behaviour may serve
    prev,        \* the request served before the one being served
    inc          \* increment_micro_action_count in each worker process

vars == <<state_md, runs, summaries, today, sec, pc, req, raw_state, new_tasks,
          outcome, ret, reply, pre, wlog, nreq, items, out, budget, prev, inc>>

\* day: the date of the day the request is served
NoReq == [op |-> "none", arg |-> "", note |-> "", tasks |-> << >>, parking |-> << >>, day |-> 0]

Files == [state_md |-> state_md, runs |-> runs, summaries |-> summaries]

NoPrev == [op |-> "none", new_tasks |-> << >>, today |-> 0, outcome |-> "none"]

\* the request that was served last, as the next one finds it
Previous == [op |-> req.op, new_tasks |-> new_tasks, today |-> req.day, outcome |-> outcome]

\* the worker processes of the web application
Workers == {"w1", "w2"}

NoInc == [w \in Workers |-> [pc |-> "idle", raw |-> << >>]]

Init ==
    /\ state_md \in InitDocs
    /\ runs = {}
    /\ summaries = {}
    /\ today = FirstDay
    /\ sec = 0
    /\ pc = "idle"
    /\ req = NoReq
    /\ raw_state = << >>
    /\ new_tasks = << >>
    /\ outcome = "none"
    /\ ret = EmptyView
    /\ reply = NoReply
    /\ pre = [state_md |-> state_md, runs |-> {}, summaries |-> {}]
    /\ wlog = << >>
    /\ nreq = 0
    /\ items = << >>
    /\ out = << >>
    /\ budget = MaxRequests
    /\ prev = NoPrev
    /\ inc = NoInc

\* timestamp(): one name per second
timestamp == <<today, sec>>

\* write_text(RUNS_DIR / f"state_{timestamp()}.md", text)
WriteSnapshot(files, text) == {f \in files : f[1] # timestamp} \cup {<<timestamp, write_text(text)>>}

\* run_replan saving the document it read before it calls the generator
CallReplanEarlyWrite(r, content, writes) ==
    /\ pc = "idle"
    /\ nreq < budget
    /\ nreq' = nreq + 1
    /\ req' = [r EXCEPT !.day = today]
    /\ pre' = Files
    /\ prev' = Previous
    /\ state_md' = write_text(content)
    /\ wlog' = [i \in 1..writes |-> "state"] \o <<"replan", "state">>
    /\ raw_state' = read_text(write_text(content))
    /\ new_tasks' = << >>
    /\ ret' = EmptyView
    /\ reply' = NoReply
    /\ IF read_text(write_text(content)) = << >>
       THEN pc' = "idle" /\ outcome' = "empty"
       ELSE pc' = "gen" /\ outcome' = "none"
    /\ UNCHANGED <<runs, summaries, today, sec, items, out, budget, inc>>

\* run_replan without its early return: it calls the generator on an
\* empty document too
CallReplanNoEarlyReturn(r, content, writes) ==
    /\ pc = "idle"
    /\ nreq < budget
    /\ nreq' = nreq + 1
    /\ req' = [r EXCEPT !.day = today]
    /\ pre' = Files
    /\ prev' = Previous
    /\ state_md' = write_text(content)
    /\ wlog' = [i \in 1..writes |-> "state"] \o <<"replan">>
    /\ raw_state' = read_text(write_text(content))
    /\ new_tasks' = << >>
    /\ ret' = EmptyView
    /\ reply' = NoReply
    /\ pc' = "gen"
    /\ outcome' = "none"
    /\ UNCHANGED <<runs, summaries, today, sec, items, out, budget, inc>>

\* A handler that has written content to STATE_PATH (writes times) and now
\* calls run_replan, which reads the document back and returns at once when
\* it is empty.
CallReplan(r, content, writes) ==
    /\ pc = "idle"
    /\ nreq < budget
    /\ nreq' = nreq + 1
    /\ req' = [r EXCEPT !.day = today]
    /\ pre' = Files
    /\ prev' = Previous
    /\ state_md' = write_text(content)
    /\ wlog' = [i \in 1..writes |-> "state"] \o <<"replan">>
    /\ raw_state' = read_text(write_text(content))
    /\ new_tasks' = << >>
    /\ ret' = EmptyView
    /\ reply' = NoReply
    /\ IF read_text(write_text(content)) = << >>
       THEN pc' = "idle" /\ outcome' = "empty"
       ELSE pc' = "gen" /\ outcome' = "none"
    /\ UNCHANGED <<runs, summaries, today, sec, items, out, budget, inc>>

WantsConfirm(text) ==
    LET cur == parse_state_sections(strip_metadata(read_text(state_md)))
    IN  detect_all_done(text)[1] /\ (cur.today # << >> \/ cur.parking # << >>)

\* POST /api/capture, when the text says everything is done: it asks back
CaptureConfirm(text) ==
    /\ pc = "idle"
    /\ nreq < budget
    /\ WantsConfirm(text)
    /\ nreq' = nreq + 1
    /\ req' = [NoReq EXCEPT !.day = today, !.op = "capture", !.arg = text]
    /\ pre' = Files
    /\ prev' = Previous
    /\ wlog' = << >>
    /\ outcome' = "confirm"
    /\ ret' = parse_state_sections(strip_metadata(read_text(state_md)))
    /\ reply' = NoReply
    /\ UNCHANGED <<state_md, runs, summaries, today, sec, pc, raw_state, new_tasks, items, out, budget, inc>>

\* POST /api/capture
Capture(text) ==
    /\ ~WantsConfirm(text)
    /\ CallReplan([NoReq EXCEPT !.op = "capture", !.arg = text],
                  CaptureContent(read_text(state_md), text), 1)

\* POST /api/complete
Complete(task_text, note) ==
    CallReplan([NoReq EXCEPT !.op = "complete", !.arg = task_text, !.note = note],
               CompleteContent(read_text(state_md), task_text, note), 1)

\* POST /api/complete_parking
CompleteParking(task_name, note) ==
    CallReplan([NoReq EXCEPT !.op = "complete_parking", !.arg = task_name, !.note = note],
               ParkingContent(read_text(state_md), task_name, note), 1)

\* POST /api/confirm_done
ConfirmDone(item) ==
    CallReplan([NoReq EXCEPT !.op = "confirm_done", !.arg = item],
               ConfirmContent(read_text(state_md), item), 1)

\* POST /api/accept_micro: the counter is written, then the note
AcceptMicro(title) ==
    CallReplan([NoReq EXCEPT !.op = "accept_micro", !.arg = title],
               AcceptContent(read_text(write_text(IncrementContent(read_text(state_md), today))),
                             title), 2)

\* run_agent.py main: it reads the document and writes nothing before the
\* generator has answered
CliMain ==
    /\ pc = "idle"
    /\ nreq < budget
    /\ nreq' = nreq + 1
    /\ req' = [NoReq EXCEPT !.day = today, !.op = "cli"]
    /\ pre' = Files
    /\ prev' = Previous
    /\ wlog' = <<"main">>
    /\ raw_state' = read_text(state_md)
    /\ new_tasks' = << >>
    /\ ret' = EmptyView
    /\ reply' = NoReply
    /\ IF read_text(state_md) = << >>
       THEN pc' = "idle" /\ outcome' = "empty"
       ELSE pc' = "gen" /\ outcome' = "none"
    /\ UNCHANGED <<state_md, runs, summaries, today, sec, items, out, budget, inc>>

\* generate_new_state returns
GenReturn(resp) ==
    /\ pc = "gen"
    /\ new_tasks' = resp
    /\ wlog' = Append(wlog, "gen")
    /\ pc' = "persist"
    /\ UNCHANGED <<state_md, runs, summaries, today, sec, req, raw_state, outcome, ret, reply, pre, nreq, items, out, budget, prev, inc>>

\* generate_new_state raises: the exception leaves run_replan and the handler
GenFail ==
    /\ pc = "gen"
    /\ wlog' = Append(wlog, "genfail")
    /\ outcome' = "error"
    /\ pc' = "idle"
    /\ UNCHANGED <<state_md, runs, summaries, today, sec, req, raw_state, new_tasks, ret, reply, pre, nreq, items, out, budget, prev, inc>>

FinalState ==
    IF req.op = "cli" THEN CliFinalState(raw_state, new_tasks, today)
    ELSE ReplanFinalState(raw_state, new_tasks, today)

Combined ==
    IF req.op = "cli" THEN CliCombinedArchive(raw_state, today)
    ELSE CombinedArchive(raw_state, new_tasks, today)

\* the view the handler returns: run_replan's, less the completed item
HandlerView(view) ==
    IF req.op \in {"complete", "confirm_done"}
    THEN [view EXCEPT !.today = SelectLines(@, {t \in Range(@) : ~IsSub(req.arg, t.name)})]
    ELSE IF req.op = "complete_parking"
    THEN [view EXCEPT !.parking = SelectLines(@, {t \in Range(@) : ~IsSub(req.arg, t.name)})]
    ELSE view

\* The rest of the cycle: the document, the snapshot and the summary are
\* written, in this order, and the view of the new document is returned;
\* complete and confirm_done then read the counter and decide on the offer.
\* An exception of update_weekly_summary leaves the cycle and the handler
\* after the first two writes.
Persist ==
    /\ pc = "persist"
    /\ state_md' = write_text(FinalState)
    /\ runs' = WriteSnapshot(runs, FinalState)
    /\ summaries' = update_weekly_summary(summaries, Combined, today)
    /\ wlog' = wlog \o <<"state", "run">>
                    \o (IF SummaryRaises(Combined) THEN <<"raise">>
                        ELSE IF WritesSummary(Combined, today) THEN <<"summary">> ELSE << >>)
    /\ ret' = IF SummaryRaises(Combined) THEN ret
              ELSE HandlerView(parse_state_sections(FinalState))
    /\ reply' = IF SummaryRaises(Combined) THEN reply
                ELSE IF req.op \in {"complete", "confirm_done"}
                THEN OfferReply(get_micro_action_count(read_text(write_text(FinalState)), today),
                                HandlerView(parse_state_sections(FinalState)).today)
                ELSE NoReply
    /\ outcome' = IF SummaryRaises(Combined) THEN "error" ELSE "ok"
    /\ pc' = "idle"
    /\ UNCHANGED <<today, sec, req, raw_state, new_tasks, pre, nreq, items, out, budget, prev, inc>>

\* POST /api/style
SetStyle(style) ==
    /\ pc = "idle"
    /\ nreq < budget
    /\ nreq' = nreq + 1
    /\ req' = [NoReq EXCEPT !.day = today, !.op = "set_style", !.arg = style]
    /\ pre' = Files
    /\ prev' = Previous
    /\ state_md' = write_text(StyleContent(read_text(state_md), CoerceStyle(style)))
    /\ wlog' = <<"state">>
    /\ outcome' = "ok"
    /\ UNCHANGED <<runs, summaries, today, sec, pc, raw_state, new_tasks, ret, reply, items, out, budget, inc>>

\* POST /api/complete_all
CompleteAll(tasks, parking) ==
    LET raw == read_text(state_md)
        all_tasks == tasks \o parking
        combined == AllDoneArchive(raw, all_tasks, today)
        new_state == AllDoneState(raw, all_tasks, today)
    IN  /\ pc = "idle"
        /\ nreq < budget
        /\ nreq' = nreq + 1
        /\ req' = [NoReq EXCEPT !.day = today, !.op = "complete_all", !.tasks = tasks, !.parking = parking]
        /\ pre' = Files
        /\ prev' = Previous
        /\ state_md' = write_text(new_state)
        /\ runs' = WriteSnapshot(runs, new_state)
        /\ summaries' = update_weekly_summary(summaries, combined, today)
        /\ wlog' = <<"state", "run">>
                   \o (IF SummaryRaises(combined) THEN <<"raise">>
                       ELSE IF WritesSummary(combined, today) THEN <<"summary">> ELSE << >>)
        /\ ret' = IF SummaryRaises(combined) THEN ret
                  ELSE [today |-> << >>, parking |-> << >>,
                        extra |-> <<Line("extra", "Rest well")>>,
                        done |-> [i \in 1..Len(all_tasks) |->
                                     [date |-> today, pd |-> 0, text |-> all_tasks[i]]]
                                 \o parse_state_sections(raw).done]
        /\ outcome' = IF SummaryRaises(combined) THEN "error" ELSE "ok"
        /\ reply' = IF SummaryRaises(combined) THEN reply ELSE NoReply
        /\ UNCHANGED <<today, sec, pc, raw_state, new_tasks, items, out, budget, inc>>

Next ==
    \/ \E text \in CaptureTexts : Capture(text)
    \/ \E text \in CaptureTexts : CaptureConfirm(text)
    \/ \E a \in CompleteArgs : Complete(a[1], a[2])
    \/ \E a \in ParkingArgs : CompleteParking(a[1], a[2])
    \/ \E item \in ConfirmItems : ConfirmDone(item)
    \/ \E title \in MicroTitles : AcceptMicro(title)
    \/ CliMain
    \/ \E resp \in GenResponses : GenReturn(resp)
    \/ GenFail
    \/ Persist
    \/ \E style \in StyleArgs : SetStyle(style)
    \/ \E a \in CompleteAllArgs : CompleteAll(a[1], a[2])

Spec == Init /\ [][Next]_vars

\* ------------------------------------------- dedupe_preserve_order alone

\* the longest list handed to dedupe_preserve_order
MaxItems == 4

DedupeItems == {DoneLine(FALSE, 1, "x"), DoneLine(FALSE, FirstDay, "g"), DoneLine(FALSE, 0, "x")}

InitDedupe ==
    /\ state_md = << >>
    /\ runs = {}
    /\ summaries = {}
    /\ today = FirstDay
    /\ sec = 0
    /\ pc = "idle"
    /\ req = NoReq
    /\ raw_state = << >>
    /\ new_tasks = << >>
    /\ outcome = "none"
    /\ ret = EmptyView
    /\ reply = NoReply
    /\ pre = [state_md |-> << >>, runs |-> {}, summaries |-> {}]
    /\ wlog = << >>
    /\ nreq = 0
    /\ items \in Seqs(DedupeItems, MaxItems)
    /\ out = << >>
    /\ budget = 0
    /\ prev = NoPrev
    /\ inc = NoInc

\* dedupe_preserve_order is called on the list, then on its own result
ApplyDedupe ==
    /\ Len(out) < 2
    /\ out' = Append(out, dedupe_preserve_order(IF out = << >> THEN items ELSE out[Len(out)]))
    /\ UNCHANGED <<state_md, runs, summaries, today, sec, pc, req, raw_state, new_tasks,
                   outcome, ret, reply, pre, wlog, nreq, items, budget, prev, inc>>

NextDedupe == ApplyDedupe

SpecDedupe == InitDedupe /\ [][NextDedupe]_vars

\* ------------------------------------- requests one after another, by day

\* the requests served one after another in one behaviour
MaxSeqRequests == 3

\* the days that pass in one behaviour
MaxNewDays == 1

\* the seconds that pass in one behaviour
MaxTicks == 1

\* the day of the first request: the last day of the second week
SeqFirstDay == 2 * DaysPerWeek

\* Documents the program wrote on earlier days: a plan, with or without an
\* archive (an entry of day 1, in the first week; an entry of the first
\* day of the second week; an entry without a date) and metadata.
SeqDocs ==
    { TypicalBody,
      Render(TypicalBody, <<DoneLine(FALSE, 1, "x")>>, EmptyMeta),
      Render(TypicalBody, <<DoneLine(FALSE, 0, "u")>>, EmptyMeta),
      Render(TypicalBody,
             <<DoneLine(FALSE, 1, "x"), DoneLine(FALSE, DaysPerWeek + 1, "y"),
               DoneLine(FALSE, 0, "u")>>,
             StoredMeta) }

\* a metadata line in the generator's text: a style, and a counter of 2
\* for the first day
GenMeta == MetaLine([style |-> "snarky", mdate |-> SeqFirstDay, mcount |-> 2])

\* what the generator answers: a plan, a plan with a completed item, a plan
\* with a metadata line, and a text without a plan
SeqResponses ==
    { <<Line("today", ""), Line("task", "a")>>,
      <<Line("today", ""), DoneLine(FALSE, 0, "g")>>,
      <<GenMeta, Line("today", "")>>,
      <<Line("text", "sorry")>> }

\* the summary the first week left behind
OldSummaries == {<<IsoWeek(1), SummaryText(<<DoneLine(FALSE, 1, "x")>>)>>}

\* The last day of the second week: the entries of day 1 are of the week
\* before, and the next day starts a third week.
InitSeq ==
    /\ state_md \in SeqDocs
    /\ runs = {}
    /\ summaries = OldSummaries
    /\ today = SeqFirstDay
    /\ sec = 0
    /\ pc = "idle"
    /\ req = NoReq
    /\ raw_state = << >>
    /\ new_tasks = << >>
    /\ outcome = "none"
    /\ ret = EmptyView
    /\ reply = NoReply
    /\ pre = [state_md |-> state_md, runs |-> {}, summaries |-> OldSummaries]
    /\ wlog = << >>
    /\ nreq = 0
    /\ items = << >>
    /\ out = << >>
    /\ budget = MaxSeqRequests
    /\ prev = NoPrev
    /\ inc = NoInc

\* run_replan called on the document as it is (a request that changes
\* nothing before it calls run_replan: complete with a task the document
\* does not hold and without a note)
Replan ==
    CallReplan([NoReq EXCEPT !.op = "replan"], read_text(state_md), 1)

\* midnight passes between two requests
NewDay ==
    /\ pc = "idle"
    /\ today < SeqFirstDay + MaxNewDays
    /\ today' = today + 1
    /\ sec' = 0
    /\ UNCHANGED <<state_md, runs, summaries, pc, req, raw_state, new_tasks, outcome, ret, reply,
                   pre, wlog, nreq, items, out, budget, prev, inc>>

\* a second passes between two requests
Tick ==
    /\ pc = "idle"
    /\ sec < MaxTicks
    /\ sec' = sec + 1
    /\ UNCHANGED <<state_md, runs, summaries, today, pc, req, raw_state, new_tasks, outcome,
                   ret, reply, pre, wlog, nreq, items, out, budget, prev, inc>>

NextSeq ==
    \/ Replan
    \/ \E title \in MicroTitles : AcceptMicro(title)
    \/ \E style \in StyleArgs : SetStyle(style)
    \/ \E a \in CompleteAllArgs : CompleteAll(a[1], a[2])
    \/ \E resp \in SeqResponses : GenReturn(resp)
    \/ GenFail
    \/ Persist
    \/ NewDay
    \/ Tick

SpecSeq == InitSeq /\ [][NextSeq]_vars

\* -------------------------------------- processes sharing the document

\* The handlers of app.py run to their end once started (they are async
\* functions without an await), so requests interleave only between
\* processes: several server processes on the same directory, and the
\* CLI next to the server.  No function of either file locks STATE_PATH.

\* a counter stored for today
RaceMeta == [style |-> "warm", mdate |-> FirstDay, mcount |-> 1]

RaceDocs ==
    { Render(TypicalBody, << >>, RaceMeta),
      Render(TypicalBody, <<DoneLine(FALSE, 1, "x")>>, RaceMeta),
      Render(TypicalBody, <<DoneLine(FALSE, 1, "x")>>, EmptyMeta) }

InitRace ==
    /\ state_md \in RaceDocs
    /\ runs = {}
    /\ summaries = {}
    /\ today = FirstDay
    /\ sec = 0
    /\ pc = "idle"
    /\ req = NoReq
    /\ raw_state = << >>
    /\ new_tasks = << >>
    /\ outcome = "none"
    /\ ret = EmptyView
    /\ reply = NoReply
    /\ pre = [state_md |-> state_md, runs |-> {}, summaries |-> {}]
    /\ wlog = << >>
    /\ nreq = 0
    /\ items = << >>
    /\ out = << >>
    /\ budget = MaxRequests
    /\ prev = NoPrev
    /\ inc = NoInc

\* increment_micro_action_count in process w: raw = read_text(STATE_PATH)
IncRead(w) ==
    /\ pc = "idle"
    /\ nreq = 0
    /\ inc[w].pc = "idle"
    /\ inc' = [inc EXCEPT ![w] = [pc |-> "read", raw |-> read_text(state_md)]]
    /\ UNCHANGED <<state_md, runs, summaries, today, sec, pc, req, raw_state, new_tasks,
                   outcome, ret, reply, pre, wlog, nreq, items, out, budget, prev>>

\* increment_micro_action_count reading the document anew when it writes,
\* as it would under a lock on the document
IncWriteLocked(w) ==
    /\ inc[w].pc = "read"
    /\ state_md' = write_text(IncrementContent(read_text(state_md), today))
    /\ inc' = [inc EXCEPT ![w].pc = "done"]
    /\ UNCHANGED <<runs, summaries, today, sec, pc, req, raw_state, new_tasks,
                   outcome, ret, reply, pre, wlog, nreq, items, out, budget, prev>>

\* increment_micro_action_count in process w: write_text(STATE_PATH, new_text)
IncWrite(w) ==
    /\ inc[w].pc = "read"
    /\ state_md' = write_text(IncrementContent(inc[w].raw, today))
    /\ inc' = [inc EXCEPT ![w].pc = "done"]
    /\ UNCHANGED <<runs, summaries, today, sec, pc, req, raw_state, new_tasks,
                   outcome, ret, reply, pre, wlog, nreq, items, out, budget, prev>>

\* no increment is between its read and its write
IncsSettled == \A w \in Workers : inc[w].pc # "read"

\* a reconcile cycle starts in a server process
RaceReplan == IncsSettled /\ Replan

\* a reconcile cycle starts in the CLI
RaceCliMain == IncsSettled /\ CliMain

\* a cycle is between its read of the document and its write
InCycle == pc \in {"gen", "persist"}

\* POST /api/style served by another process while the cycle runs
StyleLands(style) ==
    /\ InCycle
    /\ "landed" \notin Range(wlog)
    /\ state_md' = write_text(StyleContent(read_text(state_md), CoerceStyle(style)))
    /\ wlog' = Append(wlog, "landed")
    /\ UNCHANGED <<runs, summaries, today, sec, pc, req, raw_state, new_tasks,
                   outcome, ret, reply, pre, nreq, items, out, budget, prev, inc>>

\* POST /api/complete_all served by another process while the cycle runs
CompleteAllLands(tasks, parking) ==
    LET raw == read_text(state_md)
        combined == AllDoneArchive(raw, tasks \o parking, today)
        new_state == AllDoneState(raw, tasks \o parking, today)
    IN  /\ InCycle
        /\ "landed" \notin Range(wlog)
        /\ state_md' = write_text(new_state)
        /\ runs' = WriteSnapshot(runs, new_state)
        /\ summaries' = update_weekly_summary(summaries, combined, today)
        /\ wlog' = Append(wlog, "landed")
        /\ UNCHANGED <<today, sec, pc, req, raw_state, new_tasks,
                       outcome, ret, reply, pre, nreq, items, out, budget, prev, inc>>

NextRace ==
    \/ \E w \in Workers : IncRead(w)
    \/ \E w \in Workers : IncWrite(w)
    \/ RaceReplan
    \/ RaceCliMain
    \/ \E style \in StyleArgs : StyleLands(style)
    \/ \E a \in CompleteAllArgs : CompleteAllLands(a[1], a[2])
    \/ \E resp \in SeqResponses : GenReturn(resp)
    \/ GenFail
    \/ Persist

SpecRace == InitRace /\ [][NextRace]_vars

\* ----------------------------------------------- documents of any content

\* the cycles one behaviour runs over a document of any content
MaxParseRequests == 2

\* what a user, or an editor, may have left on top of state.md: a metadata
\* comment whose JSON does not parse, lines no pattern recognizes, a hint
\* without its task, a completion whose date is not a day of the calendar
ParseUserLines ==
    { BadMetaLine, Line("text", "???"), Line("hint", "start"), Line("bare", ""),
      DoneLine(FALSE, BadDate, "x") }

\* the lines found under the archive's header
ParseArchLines == { DoneLine(FALSE, 1, "x"), DoneLine(FALSE, BadDate, "x"), Line("text", "???") }

ParseDocs ==
    { Render(u \o b, a, m) :
        u \in Seqs(ParseUserLines, 1), b \in {<< >>, TypicalBody},
        a \in Seqs(ParseArchLines, 1), m \in {EmptyMeta, StoredMeta} }

\* the generator's text: a plan, a plan after a metadata comment that does
\* not parse, a refusal, nothing but a completion, a completion with a date
\* that is not a day of the calendar before a plan, plans whose task names
\* hold the word of a heading ("plan today's meeting", "go the extra
\* mile"), a plan with other lines between its tasks, and no text at all
ParseResponses ==
    { << Line("today", ""), Line("task", "a") >>,
      << BadMetaLine, Line("today", ""), Line("task", "a") >>,
      << Line("text", "sorry") >>,
      << DoneLine(FALSE, 0, "g") >>,
      << DoneLine(FALSE, BadDate, "g"), Line("today", ""), Line("task", "a") >>,
      << Line("today", ""), Line("task", "a"), Line("task", "plan today"), Line("hint", "first") >>,
      << Line("today", ""), Line("task", "extra mile"), Line("task", "a"), Line("extra", "c") >>,
      << Line("today", ""), Line("task", "a"), Line("text", "???"), Line("hint", "start"),
         Line("rule", ""), Line("task", "b"), Line("extrahd", ""), Line("task", "c") >>,
      << >> }

InitParse ==
    /\ state_md \in ParseDocs
    /\ runs = {}
    /\ summaries = {}
    /\ today = FirstDay
    /\ sec = 0
    /\ pc = "idle"
    /\ req = NoReq
    /\ raw_state = << >>
    /\ new_tasks = << >>
    /\ outcome = "none"
    /\ ret = EmptyView
    /\ reply = NoReply
    /\ pre = [state_md |-> state_md, runs |-> {}, summaries |-> {}]
    /\ wlog = << >>
    /\ nreq = 0
    /\ items = << >>
    /\ out = << >>
    /\ budget = MaxParseRequests
    /\ prev = NoPrev
    /\ inc = NoInc

NextParse ==
    \/ Capture("note")
    \/ CliMain
    \/ \E resp \in ParseResponses : GenReturn(resp)
    \/ GenFail
    \/ Persist

SpecParse == InitParse /\ [][NextParse]_vars

\* ------------------------------------------------- the offers of one day

\* the requests one behaviour serves around the daily limit
MaxOfferRequests == 2

\* the counter a document may hold when the first request arrives
MaxStoredCount == 3

\* documents with a plan and a counter of today, of the day before, or none
OfferDocs ==
    { WithMeta(TypicalBody, m) :
        m \in {EmptyMeta}
              \cup { [style |-> "warm", mdate |-> d, mcount |-> c] :
                       d \in {SeqFirstDay - 1, SeqFirstDay}, c \in 0..MaxStoredCount } }

\* the generator's text: a plan, and a plan under a metadata line
OfferResponses ==
    { << Line("today", ""), Line("task", "a") >>,
      << GenMeta, Line("today", ""), Line("task", "b") >> }

InitOffer ==
    /\ state_md \in OfferDocs
    /\ runs = {}
    /\ summaries = {}
    /\ today = SeqFirstDay
    /\ sec = 0
    /\ pc = "idle"
    /\ req = NoReq
    /\ raw_state = << >>
    /\ new_tasks = << >>
    /\ outcome = "none"
    /\ ret = EmptyView
    /\ reply = NoReply
    /\ pre = [state_md |-> state_md, runs |-> {}, summaries |-> {}]
    /\ wlog = << >>
    /\ nreq = 0
    /\ items = << >>
    /\ out = << >>
    /\ budget = MaxOfferRequests
    /\ prev = NoPrev
    /\ inc = NoInc

NextOffer ==
    \/ \E a \in CompleteArgs : Complete(a[1], a[2])
    \/ \E item \in ConfirmItems : ConfirmDone(item)
    \/ \E title \in MicroTitles : AcceptMicro(title)
    \/ \E resp \in OfferResponses : GenReturn(resp)
    \/ GenFail
    \/ Persist
    \/ NewDay

SpecOffer == InitOffer /\ [][NextOffer]_vars

\* ------------------------------------------------------------- claims

ReplanOps == {"capture", "complete", "complete_parking", "confirm_done", "accept_micro"}

\* a web request has gone through run_replan to its end
ReplanOk == outcome = "ok" /\ req.op \in ReplanOps

\* a reconcile cycle, web or CLI, has gone to its end
CycleOk == outcome = "ok" /\ req.op \in ReplanOps \cup {"cli"}

\* the document as the cycle's own parser reads it back
Persisted ==
    IF req.op = "cli" THEN cli_split_done_archive(read_text(state_md))
    ELSE split_done_archive(read_text(state_md))

PersistedArchive == Persisted.archive

PersistedBody == Persisted.main

\* the body and the archive the cycle found
Found ==
    IF req.op = "cli" THEN cli_split_done_archive(raw_state) ELSE split_done_archive(raw_state)

NoDup(s) == \A i, j \in 1..Len(s) : i # j => s[i] # s[j]

FirstPos(s, e) == FirstIn(s, {e})

\* o holds each distinct element of s once, in the order of first occurrence
IsDedupeOf(o, s) ==
    /\ NoDup(o)
    /\ Range(o) = Range(s)
    /\ \A i, j \in 1..Len(o) : i < j => FirstPos(s, o[i]) < FirstPos(s, o[j])

\* the archive holds l as a dated entry: l's own date when l has one, else today
ArchivedAs(l) ==
    \E e \in Range(PersistedArchive) :
        /\ DATED_DONE_RE(e)
        /\ e.t = l.t
        /\ e.pd = 0
        /\ e.d = (IF l.d # 0 THEN l.d ELSE today)

\* C1: after a successful reconcile cycle (web or CLI), every "- [x]" line
\* of the body the cycle found is in the persisted archive as a dated entry,
\* with its own date if it had one and today's date otherwise.
C1_CompletionConservation ==
    CycleOk =>
        \A i \in 1..Len(Found.main) :
            DONE_LINE_RE(Found.main[i]) => ArchivedAs(Found.main[i])

\* C2: when the generator fails during capture, complete, complete_parking,
\* confirm_done or accept_micro, the document, the snapshots and the
\* summaries are what they were before the request.
C2_FailureLeavesFilesUnchanged ==
    (outcome = "error" /\ req.op \in ReplanOps) => Files = pre

Writes == {"state", "run", "summary"}

\* what the request did from run_replan's first line on
SinceReplan == SubSeq(wlog, FirstIn(wlog, {"replan"}) + 1, Len(wlog))

\* C3: within run_replan no file is written before the generator has
\* returned; when the generator raises, run_replan writes nothing; a cycle
\* that succeeds writes the document exactly once.
C3_WritesOnlyAfterGenerator ==
    "replan" \in Range(wlog) =>
        LET r == SinceReplan
            g == FirstIn(r, {"gen"})
        IN  /\ \A i \in 1..Len(r) : r[i] \in Writes => (g # 0 /\ g < i)
            /\ "genfail" \in Range(r) => \A i \in 1..Len(r) : r[i] \notin Writes
            /\ outcome = "ok" => Cardinality({i \in 1..Len(r) : r[i] = "state"}) = 1

C3_Witness ==
    ReplanOk /\ wlog = <<"state", "replan", "gen", "state", "run", "summary">>

\* every entry of a is in b, in the same relative order, and whatever b
\* holds besides comes after them
AppendOnly(a, b) ==
    /\ Range(a) \subseteq Range(b)
    /\ \A e1, e2 \in Range(a) :
          FirstPos(a, e1) < FirstPos(a, e2) => FirstPos(b, e1) < FirstPos(b, e2)
    /\ \A i, j \in 1..Len(b) : (b[i] \in Range(a) /\ b[j] \notin Range(a)) => i < j

\* C4: every mutating operation leaves the entries the archive had in
\* place and in order, and puts the entries it adds after them.
C4_ArchiveAppendOnly ==
    (outcome = "ok" /\ req.op \in ReplanOps \cup {"set_style", "complete_all"}) =>
        AppendOnly(split_done_archive(pre.state_md).archive,
                   split_done_archive(read_text(state_md)).archive)

\* the three sources of run_replan's archive, in their priority order
MergeSources ==
    Found.archive
    \o [i \in 1..Len(extract_done_lines(Found.main)) |->
          normalize_done_item(extract_done_lines(Found.main)[i], today)]
    \o [i \in 1..Len(extract_done_lines(new_tasks)) |->
          normalize_done_item(extract_done_lines(new_tasks)[i], today)]

\* C5: after a successful run_replan the persisted archive is the existing
\* archive lines, then the user's completions, then the generator's, each
\* distinct line once at its first occurrence, and nothing else.
C5_ArchiveIsMerge == ReplanOk => IsDedupeOf(PersistedArchive, MergeSources)

C5_Witness ==
    /\ ReplanOk
    /\ Len(extract_done_lines(Found.main)) = 1
    /\ extract_done_lines(new_tasks) = << >>
    /\ has_today_tasks(new_tasks)
    /\ Found.archive # << >>
    /\ Len(PersistedArchive) = Len(Found.archive) + 1

\* C6: dedupe_preserve_order returns each distinct line once, in the order
\* of first occurrence ([A, B, A] gives [A, B]), and applied to its own
\* result it returns that result.
C6_DedupePreservesOrder ==
    /\ Len(out) >= 1 => IsDedupeOf(out[1], items)
    /\ Len(out) = 2 => out[2] = out[1]
    /\ (Len(out) >= 1 /\ items = <<DoneLine(FALSE, 1, "x"), DoneLine(FALSE, 0, "x"), DoneLine(FALSE, 1, "x")>>)
          => out[1] = <<DoneLine(FALSE, 1, "x"), DoneLine(FALSE, 0, "x")>>

C6_Witness ==
    /\ items = <<DoneLine(FALSE, 1, "x"), DoneLine(FALSE, 0, "x"), DoneLine(FALSE, 1, "x")>>
    /\ Len(out) = 2
    /\ out[1] = <<DoneLine(FALSE, 1, "x"), DoneLine(FALSE, 0, "x")>>

\* a section heading that names Today
HasTodayHeading(text) == \E i \in 1..Len(text) : text[i].k = "today"

\* C7: when the generator's text is empty or has no Today section heading,
\* the persisted body is the fallback document; when the sanitized text has
\* such a heading, it is the persisted body, unchanged.
C7_FallbackTrigger ==
    ReplanOk =>
        /\ ~HasTodayHeading(new_tasks) => PersistedBody = FALLBACK
        /\ HasTodayHeading(Sanitize(new_tasks)) => PersistedBody = Sanitize(new_tasks)

\* the written text up to the archive heading, metadata lines included
WrittenBody == BeforeFirst(read_text(state_md), DONE_ARCHIVE_HEADER)

\* C8: whatever the generator returns, the body run_replan persists holds
\* no done-marker line, no archive heading and no Just Completed marker,
\* so the document reads back with the merged archive and no completion
\* left in its body.
C8_SanitizationTotal ==
    ReplanOk =>
        /\ \A i \in 1..Len(WrittenBody) :
              ~DONE_LINE_RE(WrittenBody[i]) /\ WrittenBody[i] # JUST_COMPLETED
        /\ Cardinality({i \in 1..Len(state_md) : state_md[i] = DONE_ARCHIVE_HEADER})
              = (IF MergeSources = << >> THEN 0 ELSE 1)
        /\ Range(PersistedArchive) = Range(MergeSources)
        /\ extract_done_lines(PersistedBody) = << >>

C8_Witness ==
    /\ ReplanOk
    /\ new_tasks = <<Line("today", ""), DoneLine(FALSE, 0, "g")>>
    /\ PersistedBody = <<Line("today", "")>>
    /\ DoneLine(FALSE, today, "g") \in Range(PersistedArchive)

\* the entries that come before the generator's in the merge
PriorEntries ==
    Range(Found.archive)
    \cup {normalize_done_item(l, today) : l \in {x \in Range(Found.main) : DONE_LINE_RE(x)}}

\* C9: every done-marker line of the generator's raw text, also one after
\* an archive heading or a Just Completed marker, is in the persisted
\* archive in normalized form (stamped with today's date when it has no
\* date), after every existing and user-declared entry unless it is one.
C9_GeneratorCompletionsArchived ==
    ReplanOk =>
        \A i \in 1..Len(new_tasks) :
            DONE_LINE_RE(new_tasks[i]) =>
                LET n == normalize_done_item(new_tasks[i], today)
                IN  /\ n \in Range(PersistedArchive)
                    /\ new_tasks[i].d = 0 => (DATED_DONE_RE(n) /\ n.d = today /\ n.t = new_tasks[i].t)
                    /\ n \notin PriorEntries =>
                          \A j \in 1..Len(PersistedArchive) :
                              PersistedArchive[j] \in PriorEntries
                                  => j < FirstPos(PersistedArchive, n)

C9_Witness ==
    /\ ReplanOk
    /\ new_tasks = <<JUST_COMPLETED, DoneLine(FALSE, 0, "g")>>
    /\ PriorEntries # {}
    /\ DoneLine(FALSE, today, "g") \notin PriorEntries
    /\ PersistedArchive[Len(PersistedArchive)] = DoneLine(FALSE, today, "g")

\* C10: run_replan leaves the metadata mapping as it found it, and the
\* document it writes has at most one metadata line, its last line.
C10_MetadataUnchanged ==
    ReplanOk =>
        /\ get_metadata(read_text(state_md)) = get_metadata(raw_state)
        /\ \A i \in 1..Len(state_md) : META_RE(state_md[i]) => i = Len(state_md)

\* run_replan has been entered by the request being served, or served last
InReplan == "replan" \in Range(wlog)

\* C11: when run_replan reads an empty document it returns the empty view
\* at once: the generator is not called, and neither the document nor a
\* snapshot nor a summary is written.
C11_EmptyDocumentShortCircuit ==
    (InReplan /\ raw_state = << >>) =>
        /\ pc = "idle"
        /\ outcome = "empty"
        /\ ret = EmptyView
    /\ reply = NoReply
        /\ SinceReplan = << >>
        /\ read_text(state_md) = << >>
        /\ runs = pre.runs
        /\ summaries = pre.summaries

C11_Witness ==
    /\ InReplan
    /\ req.op = "complete"
    /\ pre.state_md = << >>
    /\ raw_state = << >>
    /\ outcome = "empty"

\* the requests that go through run_replan
CycleOps == ReplanOps \cup {"replan"}

\* run_replan has run to its end twice in a row, the second time on the
\* document the first one wrote, on the same day and with the same text
\* from the generator
RanTwice ==
    /\ outcome = "ok"
    /\ req.op = "replan"
    /\ prev.outcome = "ok"
    /\ prev.op \in CycleOps
    /\ prev.new_tasks = new_tasks
    /\ prev.today = today

\* C12: a second run_replan on the same day, with the same text from the
\* generator and no edit in between, leaves the archive of the first run
\* as it is: the same lines in the same order.
C12_SecondRunKeepsArchive ==
    RanTwice =>
        split_done_archive(read_text(state_md)).archive
            = split_done_archive(pre.state_md).archive

C12_Witness ==
    /\ RanTwice
    /\ extract_done_lines(new_tasks) # << >>
    /\ Len(split_done_archive(read_text(state_md)).archive) >= 2

\* today's counter as get_micro_action_count reads it from the document
Count == get_micro_action_count(read_text(state_md), today)

\* the step is the arrival of an accept_micro request
AcceptArrives == nreq' = nreq + 1 /\ req'.op = "accept_micro"

\* C13: with requests served one at a time, each accept_micro stores
\* today's count plus one - 1 for the first of a day, k for the k-th -, no
\* other operation served in between changes today's count, and on a new
\* day the count reads 0 whatever yesterday's was.
C13_DailyCounter ==
    [][ /\ AcceptArrives => Count' = Count + 1
        /\ (~AcceptArrives /\ today' = today) => Count' = Count
        /\ today' # today => Count' = 0 ]_vars

\* C14: set_style stores the style it was given when it is one of the
\* three styles and "neutral" otherwise, and returns; the body, the archive
\* and the other metadata keys are what they were, and the style read back
\* is one of the three.
C14_StyleCoercion ==
    (outcome = "ok" /\ req.op = "set_style") =>
        LET before == split_done_archive(pre.state_md)
            after == split_done_archive(read_text(state_md))
            m0 == get_metadata(pre.state_md)
            m1 == get_metadata(read_text(state_md))
        IN  /\ m1.style = (IF req.arg \in Styles THEN req.arg ELSE "neutral")
            /\ after.main = before.main
            /\ after.archive = before.archive
            /\ m1.mdate = m0.mdate
            /\ m1.mcount = m0.mcount
            /\ get_praise_style(read_text(state_md)) \in Styles

C14_Witness ==
    /\ outcome = "ok"
    /\ req.op = "set_style"
    /\ req.arg \notin Styles
    /\ get_metadata(pre.state_md) = StoredMeta
    /\ split_done_archive(pre.state_md).archive # << >>
    /\ get_metadata(read_text(state_md)) = [StoredMeta EXCEPT !.style = "neutral"]

\* a request that ends with update_weekly_summary has been served
SummaryOps == CycleOps \cup {"complete_all"}

SummaryCalled == outcome = "ok" /\ req.op \in SummaryOps

\* the archive the request handed to update_weekly_summary: the one it
\* wrote to the document
HandedArchive == split_done_archive(read_text(state_md)).archive

\* the entries of the handed archive that carry a date of the week in
\* which the request was served
CurrentWeekEntries ==
    SelectLines(HandedArchive,
                {l \in Range(HandedArchive) :
                    l.k = "done" /\ ~l.u /\ l.d # 0 /\ IsoWeek(l.d) = IsoWeek(req.day)})

SummaryWrites == Cardinality({i \in 1..Len(wlog) : wlog[i] = "summary"})

\* C15: update_weekly_summary writes nothing when the archive holds no
\* dated entry of the current ISO week; otherwise it writes one file, the
\* current week's, and leaves every other week's file alone.
C15_SummaryFrame ==
    SummaryCalled =>
        LET wk == IsoWeek(req.day)
        IN  IF CurrentWeekEntries = << >>
            THEN summaries = pre.summaries /\ SummaryWrites = 0
            ELSE /\ SummaryWrites = 1
                 /\ Cardinality({f \in summaries : f[1] = wk}) = 1
                 /\ {f \in summaries : f[1] # wk} = {f \in pre.summaries : f[1] # wk}

\* the day after the week ended: the archive holds dated entries of the
\* weeks before and an undated one, and no file is written; the files of
\* the weeks before stay
C15_Witness ==
    /\ SummaryCalled
    /\ req.day = SeqFirstDay + 1
    /\ CurrentWeekEntries = << >>
    /\ \E l \in Range(HandedArchive) : DATED_DONE_RE(l)
    /\ \E l \in Range(HandedArchive) : l.k = "done" /\ l.d = 0
    /\ Cardinality(pre.summaries) = 2
    /\ summaries = pre.summaries

\* the current week's summary file
WeekFile == CHOOSE f \in summaries : f[1] = IsoWeek(req.day)

\* C16: the summary written for the current week counts and lists exactly
\* the dated archive entries of that week, one group per date in ascending
\* order of date, the entries of a date in the order of the archive.
C16_SummaryContent ==
    (SummaryCalled /\ SummaryWrites = 1) =>
        LET txt == WeekFile[2]
            cur == CurrentWeekEntries
        IN  /\ txt.total = Len(cur)
            /\ {txt.groups[i].day : i \in 1..Len(txt.groups)} = {e.d : e \in Range(cur)}
            /\ \A i, j \in 1..Len(txt.groups) : i < j => txt.groups[i].day < txt.groups[j].day
            /\ \A i \in 1..Len(txt.groups) :
                  txt.groups[i].items
                      = SelectLines(cur, {e \in Range(cur) : e.d = txt.groups[i].day})

\* two days of one week in the summary, and an entry of another week left out
C16_Witness ==
    /\ SummaryCalled
    /\ SummaryWrites = 1
    /\ Len(WeekFile[2].groups) = 2
    /\ \E l \in Range(HandedArchive) : DATED_DONE_RE(l) /\ IsoWeek(l.d) # IsoWeek(req.day)

\* C17: every successful run_replan and every complete_all leaves a
\* snapshot that holds the document it wrote, and every snapshot that was
\* there before is still there with its content, however close in time
\* the operations are.
C17_SnapshotsAppendOnly ==
    SummaryCalled =>
        /\ \E f \in runs : f[2] = read_text(state_md)
        /\ \A f \in pre.runs : f \in runs

\* both processes have run increment_micro_action_count to its end and no
\* reconcile cycle has started since
BothIncremented == nreq = 0 /\ \A w \in Workers : inc[w].pc = "done"

\* a reconcile cycle has written the document
CycleWrote == outcome = "ok" /\ req.op \in {"replan", "cli"}

\* C18: the last write wins, document by document.  After two increments
\* the document is what one of them made of the text it had read, so when
\* both had read count c the counter is c + 1; and after a reconcile cycle
\* the document is what the cycle made of the text it had read, whatever
\* another process wrote between its read and its write.
C18_LastWriteWins ==
    /\ BothIncremented =>
          \E w \in Workers : read_text(state_md) = IncrementContent(inc[w].raw, today)
    /\ (BothIncremented /\ inc["w1"].raw = inc["w2"].raw) =>
          Count = get_micro_action_count(inc["w1"].raw, today) + 1
    /\ CycleWrote => read_text(state_md) = write_text(FinalState)

\* two increments that both read count 1 leave count 2
C18_Witness ==
    /\ BothIncremented
    /\ get_micro_action_count(inc["w1"].raw, today) = 1
    /\ get_micro_action_count(inc["w2"].raw, today) = 1
    /\ Count = 2

\* C19: complete_all does not call the generator; the archive it leaves
\* holds one entry dated today for each task and parking task of the
\* request and every entry the archive held before, the body is the fixed
\* all-done text, and the metadata is what it was.
C19_CompleteAll ==
    (outcome = "ok" /\ req.op = "complete_all") =>
        LET before == split_done_archive(pre.state_md)
            after == split_done_archive(read_text(state_md))
            all_tasks == req.tasks \o req.parking
        IN  /\ pc = "idle"
            /\ new_tasks = << >>
            /\ Range(wlog) \cap {"replan", "gen", "genfail"} = {}
            /\ \A i \in 1..Len(all_tasks) :
                  Cardinality({j \in 1..Len(after.archive) :
                                  after.archive[j] = DoneLine(FALSE, req.day, all_tasks[i])}) = 1
            /\ Range(before.archive) \subseteq Range(after.archive)
            /\ after.main = ALL_DONE_BODY
            /\ get_metadata(read_text(state_md)) = get_metadata(pre.state_md)

C19_Witness ==
    /\ outcome = "ok"
    /\ req.op = "complete_all"
    /\ req.tasks = <<"a">>
    /\ req.parking = <<"b">>
    /\ Len(split_done_archive(pre.state_md).archive) = 2
    /\ get_metadata(pre.state_md) = StoredMeta
    /\ Len(split_done_archive(read_text(state_md)).archive) = 4

\* C20: a reconcile cycle, of the web application or of the command line,
\* whose generator has answered ends normally whatever the document and
\* the generator's text hold (metadata that does not parse, lines no
\* pattern recognizes, completions whose date is not a day of the
\* calendar): an error leaves a cycle only when the generator has failed,
\* and after a cycle that ended normally the document is not empty.
C20_ParseToleranceNeverFatal ==
    /\ (outcome = "error" /\ req.op \in ReplanOps \cup {"cli"}) => "genfail" \in Range(wlog)
    /\ CycleOk => read_text(state_md) # << >>

\* the line the handler's loop looks for is in the document the request found
HasBoldLine(text, t) == \E l \in Range(strip_metadata(text)) : InLine(t, l) /\ HasBold(l)

HasSepLine(text, t) == \E l \in Range(strip_metadata(text)) : InLine(t, l) /\ HasSep(l)

\* the persisted archive has the entry of today's date whose text is t
ArchivedToday(t) == DoneLine(FALSE, req.day, t) \in Range(PersistedArchive)

\* C21: after a successful complete(t) on a document with a bold line
\* holding t, a successful complete_parking(t) on a document with a line
\* holding t and the separator, or a successful confirm_done(t), the
\* persisted archive holds the entry of today's date with the text t,
\* whatever the generator returned, and the returned Today (for
\* complete_parking: Parking) list has no task whose name contains t.
C21_ItemArchived ==
    /\ (ReplanOk /\ req.op = "complete" /\ HasBoldLine(pre.state_md, req.arg))
          => /\ ArchivedToday(req.arg)
             /\ \A i \in 1..Len(ret.today) : ~IsSub(req.arg, ret.today[i].name)
    /\ (ReplanOk /\ req.op = "complete_parking" /\ HasSepLine(pre.state_md, req.arg))
          => /\ ArchivedToday(req.arg)
             /\ \A i \in 1..Len(ret.parking) : ~IsSub(req.arg, ret.parking[i].name)
    /\ (ReplanOk /\ req.op = "confirm_done")
          => /\ ArchivedToday(req.arg)
             /\ \A i \in 1..Len(ret.today) : ~IsSub(req.arg, ret.today[i].name)

\* a capture request arrives in this step
CaptureArrives == req'.op = "capture" /\ nreq' = nreq + 1

\* C22: every capture request, whatever the text and the document, puts
\* the submitted text on top of the document's body and starts one
\* reconcile cycle whose generator is handed that text; no submitted
\* text is dropped without being written.
C22_CaptureAlwaysWritten ==
    [][CaptureArrives =>
          /\ strip_metadata(read_text(state_md')) # << >>
          /\ Head(strip_metadata(read_text(state_md'))) = Line("text", req'.arg)
          /\ pc' = "gen"
          /\ Line("text", req'.arg) \in Range(ReplanPrompt(raw_state', today').brain_dump)]_vars

\* run_replan or complete_all has returned normally
WebWriteOk == outcome = "ok" /\ req.op \in ReplanOps \cup {"complete_all"}

\* C23: after every successful run_replan or complete_all, whatever the
\* document it found (an archive with duplicate lines included) and
\* whatever the generator returned, no two lines of the persisted
\* document's archive are identical.
C23_ArchiveUnique == WebWriteOk => NoDup(PersistedArchive)

\* C23: run_replan has returned on a document whose archive held the same
\* line twice
C23_Witness ==
    /\ ReplanOk
    /\ ~NoDup(split_done_archive(pre.state_md).archive)
    /\ PersistedArchive # << >>

\* the archive's heading is a line of the text
HasHeader(text) == DONE_ARCHIVE_HEADER \in Range(text)

\* C24: in every document run_replan or complete_all has written, the
\* archive's heading is there if and only if the archive has an entry,
\* and when the document's metadata is not empty the metadata line is
\* its last line.
C24_RenderedShape ==
    WebWriteOk =>
        /\ HasHeader(read_text(state_md)) <=> PersistedArchive # << >>
        /\ get_metadata(read_text(state_md)) # EmptyMeta =>
              state_md[Len(state_md)] = MetaLine(get_metadata(read_text(state_md)))

\* the kinds of the section headings ("## ...")
SectionHeadings == {"today", "skip", "parking", "extrahd"}

\* line i of main follows a heading that holds a Parking keyword, with no
\* other heading in between
UnderParkingHeading(main, i) ==
    \E j \in 1..(i - 1) :
        /\ main[j].k \in SectionHeadings
        /\ HasParking(main[j])
        /\ \A n \in (j + 1)..(i - 1) : main[n].k \notin SectionHeadings

\* C25: a heading that holds a Parking keyword ("parking", "can skip",
\* "not today") moves parse_state_sections' cursor to Parking, so that the
\* dash-and-separator lines after it are returned as parking tasks; the
\* documents the system writes (headings "Today's Tasks", "Can Skip
\* Today", "If You Have Extra Energy") parse to their Parking items.
C25_ParkingHeading ==
    (ReplanOk /\ req.op # "complete_parking") =>
        \A i \in 1..Len(PersistedBody) :
            (PersistedBody[i].k = "park" /\ UnderParkingHeading(PersistedBody, i))
                => \E n \in 1..Len(ret.parking) : ret.parking[n].name = PersistedBody[i].t

\* the section a heading line names
SectionNamed(l) ==
    IF l.k = "today" THEN "today"
    ELSE IF l.k \in {"skip", "parking"} THEN "parking"
    ELSE "extra"

\* The Today list as C26 states it: the cursor moves at heading lines
\* only, every bold line met under Today is a task, and an arrow line
\* met under Today is the hint of the last task.
RECURSIVE TodayByHeadings(_, _, _)
TodayByHeadings(lines, cur, acc) ==
    IF lines = << >> THEN acc
    ELSE LET l == Head(lines)
         IN  IF l.k \in SectionHeadings
             THEN TodayByHeadings(Tail(lines), SectionNamed(l), acc)
             ELSE IF l.k = "task" /\ cur = "today"
             THEN TodayByHeadings(Tail(lines), cur, Append(acc, [name |-> l.t, hint |-> ""]))
             ELSE IF l.k = "hint" /\ cur = "today" /\ acc # << >>
             THEN TodayByHeadings(Tail(lines), cur, [acc EXCEPT ![Len(acc)].hint = l.t])
             ELSE TodayByHeadings(Tail(lines), cur, acc)

\* C26: every numbered bold line parse_state_sections meets while its
\* cursor is Today becomes a Today task, in the order of the document and
\* whatever its name; an arrow line sets the hint of the Today task just
\* before it; the cursor moves at heading lines only.
C26_TodayTasks ==
    (ReplanOk /\ req.op = "capture") => ret.today = TodayByHeadings(PersistedBody, "none", << >>)

\* C27: the state complete_all returns is the parsed view of the document
\* it has written: the same done entries in the same order, none of them
\* twice, also when a requested task is already in the archive with
\* today's date and when the archive held undated lines.
C27_CompleteAllReturnsView ==
    (outcome = "ok" /\ req.op = "complete_all") => ret = parse_state_sections(read_text(state_md))

\* complete or confirm_done has returned normally
OfferOps == {"complete", "confirm_done"}

\* today's counter as the document holds it when the handler returns
CounterAfter == get_micro_action_count(read_text(state_md), req.day)

\* C28: complete and confirm_done offer a micro action only when today's
\* counter, read after the reconcile cycle (0 when the stored date is not
\* today), is below MAX_MICRO_ACTIONS_PER_DAY; at the limit or above they
\* return no micro action, do not ask, and send the shutdown note in
\* place of the safety note.
C28_OfferRateLimit ==
    (ReplanOk /\ req.op \in OfferOps /\ today = req.day) =>
        /\ reply.micro_action # {} => CounterAfter < MAX_MICRO_ACTIONS_PER_DAY
        /\ CounterAfter >= MAX_MICRO_ACTIONS_PER_DAY =>
              reply = [micro_action |-> {}, ask |-> FALSE, note |-> "shutdown"]
        /\ CounterAfter < MAX_MICRO_ACTIONS_PER_DAY => reply.note = "safety"

\* C28: complete has returned with the counter at the limit, reached by
\* an accepted offer of the day
C28_Witness ==
    /\ ReplanOk
    /\ req.op = "complete"
    /\ today = req.day
    /\ prev.op = "accept_micro"
    /\ CounterAfter = MAX_MICRO_ACTIONS_PER_DAY
    /\ reply.note = "shutdown"

\* C29: the reconcile cycle of the command line keeps the metadata as the
\* web one does: the mapping the document held before a successful cycle
\* is the mapping it holds after it, and the metadata line is not handed
\* to the generator as text of the body.
C29_CliKeepsMetadata ==
    (CycleOk /\ req.op = "cli") =>
        /\ get_metadata(read_text(state_md)) = get_metadata(pre.state_md)
        /\ \A l \in Range(CliPrompt(raw_state, req.day).brain_dump) : ~META_RE(l)

====
